---- MODULE Spec2Model ----
(***************************************************************************)
(* Model of the mandi price query service (src/app.py): process startup,   *)
(* the market_price tool and the /api/query handler.                       *)
(*                                                                         *)
(* Text that the code parses (commodity, state, tool queries) is a         *)
(* sequence of one-character strings, so that lower(), replace(), split(), *)
(* strip() and title() are computed as Python computes them.  Market names *)
(* and messages are never parsed by the code and are atomic strings.       *)
(* A JSON value that may be null/absent is <<>> (None) or <<v>>.           *)
(***************************************************************************)
EXTENDS Integers, Sequences, FiniteSets, TLC

VARIABLES
    env,             \* environment at process start: which credentials are set
    pc,              \* "boot" | "failed" | "ready" | "responded"
    USE_AGENT,       \* module global, line 18
    agent_executor,  \* module global, lines 65-109: TRUE = an executor, FALSE = None
    startupLog,      \* what the agent set-up printed (lines 105 and 108)
    request,         \* the request being answered and what its collaborators did
    response,        \* what the handler produced for it
    toolLog,         \* one entry per market_price invocation made for the request
    agentLog         \* the inputs agent_executor.invoke received for the request

vars == <<env, pc, USE_AGENT, agent_executor, startupLog, request, response, toolLog, agentLog>>

-----------------------------------------------------------------------------
(* Bounds *)

\* longest "records" array the upstream service returns
MaxRecs == 2

-----------------------------------------------------------------------------
(* Python str operations on sequences of characters *)

Lowers == <<"a","b","c","d","e","f","g","h","i","j","k","l","m",
            "n","o","p","q","r","s","t","u","v","w","x","y","z">>
Uppers == <<"A","B","C","D","E","F","G","H","I","J","K","L","M",
            "N","O","P","Q","R","S","T","U","V","W","X","Y","Z">>

IsLower(c) == \E i \in DOMAIN Lowers : Lowers[i] = c
IsUpper(c) == \E i \in DOMAIN Uppers : Uppers[i] = c
IsCased(c) == IsLower(c) \/ IsUpper(c)
IsSpace(c) == c = " "

LowerChar(c) == IF IsUpper(c) THEN Lowers[CHOOSE i \in DOMAIN Uppers : Uppers[i] = c] ELSE c
UpperChar(c) == IF IsLower(c) THEN Uppers[CHOOSE i \in DOMAIN Lowers : Lowers[i] = c] ELSE c

\* str.lower()
Lower(s) == [i \in 1..Len(s) |-> LowerChar(s[i])]

\* str.title(): a cased character is upper-cased after an uncased one (or at
\* the start) and lower-cased after a cased one
Title(s) == [i \in 1..Len(s) |->
                IF i = 1 \/ ~IsCased(s[i-1]) THEN UpperChar(s[i]) ELSE LowerChar(s[i])]

\* str.strip()
Strip(s) ==
    LET keep == {i \in 1..Len(s) : ~IsSpace(s[i])}
    IN  IF keep = {} THEN <<>>
        ELSE LET lo == CHOOSE i \in keep : \A j \in keep : i <= j
                 hi == CHOOSE i \in keep : \A j \in keep : i >= j
             IN  SubSeq(s, lo, hi)

\* str.find(): the first index at which sub occurs in s, 0 when it does not
Find(s, sub) ==
    LET hits == {i \in 1..(Len(s) - Len(sub) + 1) : SubSeq(s, i, i + Len(sub) - 1) = sub}
    IN  IF hits = {} THEN 0 ELSE CHOOSE i \in hits : \A j \in hits : i <= j

\* sub in s
Contains(s, sub) == Find(s, sub) # 0

\* s.replace(old, ""): every non-overlapping occurrence, left to right
RECURSIVE Remove(_, _)
Remove(s, old) ==
    LET i == Find(s, old)
    IN  IF i = 0 THEN s
        ELSE SubSeq(s, 1, i - 1) \o Remove(SubSeq(s, i + Len(old), Len(s)), old)

\* s.split(sep): the list of parts
RECURSIVE Split(_, _)
Split(s, sep) ==
    LET i == Find(s, sep)
    IN  IF i = 0 THEN <<s>>
        ELSE <<SubSeq(s, 1, i - 1)>> \o Split(SubSeq(s, i + Len(sep), Len(s)), sep)

\* the literals of lines 33 and 36
SEP_IN   == <<" ","i","n"," ">>
PRICE_OF == <<"p","r","i","c","e"," ","o","f"," ">>

-----------------------------------------------------------------------------
(* JSON values *)

None    == <<>>
Some(v) == <<v>>

\* dict.get(key) and dict.get(key, default) on a JSON object
Get(d, k)           == IF k \in DOMAIN d THEN d[k] ELSE None
GetOr(d, k, dflt)   == IF k \in DOMAIN d THEN d[k] ELSE Some(dflt)

\* Python truthiness of a string-or-None value read from JSON
TruthyText(o) == o # None /\ o[1] # <<>>
TruthyName(o) == o # None /\ o[1] # ""

-----------------------------------------------------------------------------
(* market_price, lines 26-61 *)

FormatErrorMsg   == "Format error. Use 'price of [commodity] in [state]'"
ApiFailedMsg     == "API request failed"
UnexpectedMsg    == "Unexpected error"
RequiredMsg      == "Commodity & State are required"
NoRecordsMsg     == "No records found"

Limit == 100

\* line 32
Normalize(query) == Lower(query)

\* a variant of the test of line 33 that forgets the spaces around "in"
HasSep_Loose(q) == Contains(q, <<"i","n">>)
\* line 33 (the test, on the normalised query)
HasSeparator(q) == Contains(q, SEP_IN)

\* line 36: the parts the tuple assignment unpacks
ParseParts(q) == Split(Remove(q, PRICE_OF), SEP_IN)

\* lines 39-45
BuildParams(commodity, state) ==
    [state |-> Title(state), commodity |-> Title(commodity), limit |-> Limit]

\* lines 47-61: the outcome of the HTTP exchange `up`
Fetch(commodity, state, up) ==
    CASE up.kind = "reqexc"  -> [error |-> ApiFailedMsg]
      [] up.kind = "notdict" -> [error |-> UnexpectedMsg]
      [] OTHER -> [crop |-> commodity, state |-> state,
                   records |-> IF "records" \in DOMAIN up.body
                               THEN up.body.records ELSE <<>>]

\* The whole tool: raised = an exception left the function (the unpacking of
\* line 36 is outside the try); issued = the requests sent upstream.
MarketPrice(query, up) ==
    LET q == Normalize(query)
    IN  IF ~HasSeparator(q)
        THEN [query |-> query, raised |-> FALSE, issued |-> <<>>,
              result |-> [error |-> FormatErrorMsg]]
        ELSE LET parts == ParseParts(q)
             IN  IF Len(parts) # 2
                 THEN [query |-> query, raised |-> TRUE, issued |-> <<>>,
                       result |-> None]
                 ELSE LET commodity == Strip(parts[1])
                          state     == Strip(parts[2])
                      IN  [query |-> query, raised |-> FALSE,
                           issued |-> <<BuildParams(commodity, state)>>,
                           result |-> Fetch(commodity, state, up)]

-----------------------------------------------------------------------------
(* /api/query, lines 119-171 *)

\* process.extractOne(market, names) of fuzzywuzzy: the first name of the
\* highest score, None when there is nothing to choose from.  score[n] is
\* the similarity the library computes between the request's market and n.
ExtractOne(score, names) ==
    IF names = <<>> THEN None
    ELSE LET best == CHOOSE i \in DOMAIN names :
                        /\ \A j \in DOMAIN names : score[names[j][1]] <= score[names[i][1]]
                        /\ \A j \in 1..(i - 1) : score[names[j][1]] < score[names[i][1]]
         IN  Some(names[best])

\* line 146
MarketNames(records) == [i \in DOMAIN records |-> GetOr(records[i], "market", "")]

\* line 148
KeepMarket(records, best_match) ==
    SelectSeq(records, LAMBDA rec : Get(rec, "market") = best_match)

\* lines 146-148; raised = the unpacking of line 147 failed on None
Disambiguate(score, records) ==
    LET found == ExtractOne(score, MarketNames(records))
    IN  IF found = None
        THEN [raised |-> TRUE, records |-> records]
        ELSE [raised |-> FALSE, records |-> KeepMarket(records, found[1])]

FormattedKeys == {"Market", "Min Price", "Max Price", "Modal Price", "Date"}

\* a variant of lines 153-159 that copies only the fields upstream supplied
FormatRecord_Copy(rec) ==
    [k \in {f \in FormattedKeys : (CASE f = "Market" -> "market"
                                     [] f = "Min Price" -> "min_price"
                                     [] f = "Max Price" -> "max_price"
                                     [] f = "Modal Price" -> "modal_price"
                                     [] OTHER -> "arrival_date") \in DOMAIN rec} |->
        Get(rec, CASE k = "Market" -> "market"
                   [] k = "Min Price" -> "min_price"
                   [] k = "Max Price" -> "max_price"
                   [] k = "Modal Price" -> "modal_price"
                   [] OTHER -> "arrival_date")]
\* lines 153-159
FormatRecord(rec) ==
    [k \in FormattedKeys |->
        CASE k = "Market"      -> GetOr(rec, "market", "")
          [] k = "Min Price"   -> GetOr(rec, "min_price", "")
          [] k = "Max Price"   -> GetOr(rec, "max_price", "")
          [] k = "Modal Price" -> GetOr(rec, "modal_price", "")
          [] OTHER             -> GetOr(rec, "arrival_date", "")]

\* the responses the handler builds
AgentResponse(result) == [kind |-> "agent", status |-> 200, response |-> result]
ErrorResponse(msg)    == [kind |-> "error", status |-> 200, error |-> msg]
\* line 134
RequiredResponse      == [kind |-> "error", status |-> 400, error |-> RequiredMsg]
\* a variant of line 151 without its status
NoRecordsResponse_200 == [kind |-> "error", status |-> 200, error |-> NoRecordsMsg]
\* line 151
NoRecordsResponse     == [kind |-> "error", status |-> 404, error |-> NoRecordsMsg]
\* lines 161-168 (a decoded success result always has crop and state)
TableResponse(data, records) ==
    [kind |-> "table", status |-> 200,
     data |-> [crop |-> data.crop, state |-> data.state,
               records |-> [i \in DOMAIN records |-> FormatRecord(records[i])]]]
\* what the web framework makes of an exception that leaves the handler
FaultResponse         == [kind |-> "fault", status |-> 500]
\* what the web framework answers when request.get_json() rejects the body
AbortResponse         == [kind |-> "abort", status |-> 415]

\* line 136
UserInput(commodity, state) == PRICE_OF \o commodity \o SEP_IN \o state

\* a variant of line 128 that tests the credential flag instead
Delegates_Flag(question) == USE_AGENT /\ TruthyName(question)
\* line 128
Delegates(question) == agent_executor /\ TruthyName(question)

\* line 133
MissingFields(commodity, state) == ~TruthyText(commodity) \/ ~TruthyText(state)

\* lines 143-168, given the decoded tool result
Tabulate(data, market, score) ==
    LET records == data.records
        matched == IF TruthyName(market) THEN Disambiguate(score, records)
                   ELSE [raised |-> FALSE, records |-> records]
    IN  IF matched.raised THEN ErrorResponse(UnexpectedMsg)
        ELSE IF matched.records = <<>> THEN NoRecordsResponse
        ELSE TableResponse(data, matched.records)

\* lines 136-168
Structured(commodity, state, market, up, score) ==
    LET call == MarketPrice(UserInput(commodity[1], state[1]), up)
    IN  [toolLog  |-> <<call>>,
         agentLog |-> <<>>,
         response |-> IF call.raised THEN ErrorResponse(UnexpectedMsg)
                      ELSE IF "error" \in DOMAIN call.result
                      THEN ErrorResponse(call.result.error)
                      ELSE Tabulate(call.result, market, score)]

\* lines 128-131: the agent is a black box that may call the tool, and then
\* returns a result or raises; an exception of the tool ends the run
Delegated(question, ab) ==
    LET calls == IF ab.tool = None THEN <<>> ELSE <<MarketPrice(ab.tool[1], ab.up)>>
        failed == ab.outcome = "raise" \/ \E i \in DOMAIN calls : calls[i].raised
    IN  [toolLog  |-> calls,
         agentLog |-> <<question[1]>>,
         response |-> IF failed THEN ErrorResponse(UnexpectedMsg)
                      ELSE AgentResponse(ab.result)]

\* the whole handler
Handle(body, ab, up, score) ==
    IF body.kind = "rejected"
    THEN [toolLog |-> <<>>, agentLog |-> <<>>, response |-> AbortResponse]
    ELSE IF body.kind # "object"
    THEN [toolLog |-> <<>>, agentLog |-> <<>>, response |-> FaultResponse]
    ELSE LET commodity == Get(body.json, "commodity")
             state     == Get(body.json, "state")
             market    == Get(body.json, "market")
             question  == Get(body.json, "question")
         IN  IF Delegates(question) THEN Delegated(question, ab)
             ELSE IF MissingFields(commodity, state)
             THEN [toolLog |-> <<>>, agentLog |-> <<>>, response |-> RequiredResponse]
             ELSE Structured(commodity, state, market, up, score)

-----------------------------------------------------------------------------
(* The inputs the model draws a request and its collaborators from *)

T_rice   == <<"r","i","c","e">>
T_Onion  == <<"O","n","i","o","n">>
T_padded == <<" ","R","i","c","e"," ">>
T_blank  == <<" ">>
T_priced == PRICE_OF \o T_rice
T_inside == <<"t","u","r"," ","i","n"," ","h","u","s","k">>
T_Goa    == <<"G","o","a">>
T_goa    == <<"g","o","a">>

Commodities == {None, Some(<<>>), Some(T_blank), Some(T_Onion),
                Some(T_padded), Some(T_priced), Some(T_inside)}
States      == {None, Some(<<>>), Some(T_blank), Some(T_Goa), Some(T_goa \o SEP_IN \o T_goa)}
Markets     == {None, Some(""), Some("pun")}
Questions   == {None, Some(""), Some("onion rate today?")}

\* the strings the agent may hand to the tool
ToolQueries == {PRICE_OF \o T_rice \o SEP_IN \o T_goa,
                T_rice \o <<" ">> \o T_goa,
                T_rice \o <<" ","I","N"," ">> \o T_Goa,
                T_rice \o <<" ","i","n","d","i","a">>,
                T_rice \o SEP_IN \o T_goa \o SEP_IN \o T_goa}

Object(c, s, m, q) ==
    LET all == [commodity |-> c, state |-> s, market |-> m, question |-> q]
    IN  [k \in {f \in DOMAIN all : all[f] # None} |-> all[k]]

Bodies ==
    {[kind |-> "rejected"], [kind |-> "nonobject"]} \cup
    {[kind |-> "object", json |-> Object(c, s, m, q)] :
        c \in Commodities, s \in States, m \in Markets, q \in Questions}

\* upstream records: complete, partial, and one with no market and a null price
R_pune     == [market |-> Some("Pune"), min_price |-> Some("10"), max_price |-> Some("20"),
               modal_price |-> Some("15"), arrival_date |-> Some("05/01/2024")]
R_nashik   == [market |-> Some("Nashik"), modal_price |-> Some("12")]
R_nomarket == [min_price |-> Some("7"), modal_price |-> None]
RecPool    == {R_pune, R_nashik, R_nomarket}
NamePool   == {"Pune", "Nashik", ""}

RecSeqs == UNION {[1..n -> RecPool] : n \in 0..MaxRecs}

NoExchange == [kind |-> "none"]

\* whether market_price gets as far as line 48 on this query
Reaches(query) ==
    HasSeparator(Normalize(query)) /\ Len(ParseParts(Normalize(query))) = 2
UpOutcomes ==
    {[kind |-> "reqexc"], [kind |-> "notdict"], [kind |-> "ok", body |-> [count |-> Some("0")]]}
    \cup {[kind |-> "ok", body |-> [records |-> r]] : r \in RecSeqs}

NoScore == [n \in NamePool |-> 0]
Scores  == [NamePool -> {0, 100}]

Idle == [tool |-> None, up |-> NoExchange, outcome |-> "none", result |-> ""]
AgentBehs ==
    {[tool |-> None, up |-> NoExchange, outcome |-> o, result |-> a] :
        o \in {"return", "raise"},
        a \in {"Onion is 15/kg in Pune", "No data found for this crop or location."}}
    \cup UNION {
        {[tool |-> Some(q), up |-> u, outcome |-> o, result |-> a] :
            u \in (IF Reaches(q) THEN UpOutcomes ELSE {NoExchange}),
            o \in {"return", "raise"},
            a \in {"Onion is 15/kg in Pune"}}
        : q \in ToolQueries}

-----------------------------------------------------------------------------
(* The process *)

NoRequest  == [kind |-> "none"]
NoResponse == [kind |-> "none", status |-> 0]

Init ==
    /\ env \in [api_mandi : BOOLEAN, GOOGLE_API_KEY : BOOLEAN]
    /\ pc = "boot"
    /\ USE_AGENT = FALSE
    /\ agent_executor = FALSE
    /\ startupLog = <<>>
    /\ request = NoRequest
    /\ response = NoResponse
    /\ toolLog = <<>>
    /\ agentLog = <<>>

\* lines 12-16: the process refuses to start without the upstream key
StartupFails ==
    /\ pc = "boot"
    /\ ~env.api_mandi
    /\ pc' = "failed"
    /\ UNCHANGED <<env, USE_AGENT, agent_executor, startupLog, request, response,
                   toolLog, agentLog>>

\* lines 18 and 65-109: with the LLM credential the executor is built, unless
\* an import or a constructor raises (line 107), which leaves it None
Startup ==
    /\ pc = "boot"
    /\ env.api_mandi
    /\ USE_AGENT' = env.GOOGLE_API_KEY
    /\ \E built \in BOOLEAN :
          /\ agent_executor' = (USE_AGENT' /\ built)
          /\ startupLog' = IF ~USE_AGENT' THEN <<>>
                           ELSE IF built THEN <<"Gemini Agent Enabled">>
                           ELSE <<"Agent initialization failed">>
    /\ pc' = "ready"
    /\ UNCHANGED <<env, request, response, toolLog, agentLog>>

\* which collaborators the handler consults for a body (the route of Handle)
Routed(body) ==
    IF body.kind # "object" THEN "none"
    ELSE IF Delegates(Get(body.json, "question")) THEN "agent"
    ELSE IF MissingFields(Get(body.json, "commodity"), Get(body.json, "state")) THEN "none"
    ELSE "structured"

\* lines 119-171: one request, from body to response
Query ==
    /\ pc = "ready"
    /\ \E body \in Bodies :
       \E ab \in (IF Routed(body) = "agent" THEN AgentBehs ELSE {Idle}) :
       \E up \in (IF Routed(body) = "structured"
                     /\ Reaches(UserInput(body.json.commodity[1], body.json.state[1]))
                  THEN UpOutcomes ELSE {NoExchange}) :
       \E score \in (IF /\ up.kind = "ok"
                        /\ TruthyName(Get(body.json, "market"))
                     THEN Scores ELSE {NoScore}) :
          LET out == Handle(body, ab, up, score)
          IN  /\ request' = [body |-> body, agent |-> ab, up |-> up, score |-> score]
              /\ response' = out.response
              /\ toolLog' = out.toolLog
              /\ agentLog' = out.agentLog
    /\ pc' = "responded"
    /\ UNCHANGED <<env, USE_AGENT, agent_executor, startupLog>>

\* the response is sent; nothing of the request outlives it
Sent ==
    /\ pc = "responded"
    /\ pc' = "ready"
    /\ request' = NoRequest
    /\ response' = NoResponse
    /\ toolLog' = <<>>
    /\ agentLog' = <<>>
    /\ UNCHANGED <<env, USE_AGENT, agent_executor, startupLog>>

Next == StartupFails \/ Startup \/ Query \/ Sent

Spec == Init /\ [][Next]_vars

-----------------------------------------------------------------------------
(* Properties *)

Served     == pc = "responded"
ObjectBody == Served /\ request.body.kind = "object"
Field(k)   == Get(request.body.json, k)

\* the handler took the structured route and the tool ran
RanStructured == ObjectBody /\ agentLog = <<>> /\ Len(toolLog) = 1
\* ... and the upstream call succeeded, returning these records
UpstreamOk == RanStructured /\ request.up.kind = "ok"
UpRecords  == IF "records" \in DOMAIN request.up.body THEN request.up.body.records ELSE <<>>

\* a supplied string that is one trimmed word, with nothing of the query
\* syntax in it
PlainWord(o) ==
    /\ TruthyText(o) /\ Strip(o[1]) = o[1]
    /\ \A i \in DOMAIN o[1] : ~IsSpace(o[1][i])
PlainInputs == ObjectBody /\ PlainWord(Field("commodity")) /\ PlainWord(Field("state"))

\* C1: every request ends in a JSON response of the success or {"error": ...}
\* shape; no exception escapes the handler.  Stated for the bodies that
\* parse as JSON, where it already fails.
C1_NoFaultEscapes ==
    (Served /\ request.body.kind \in {"object", "nonobject"}) =>
        response.kind \in {"agent", "table", "error"}

\* C2 as stated: every {"error": ...} outcome has a success status, the
\* missing commodity/state one alone has a client-error status.  Stated for
\* requests whose commodity and state are plain words.
C2_OnlyMissingFieldsIsClientError ==
    (PlainInputs /\ response.kind = "error") =>
        IF response.error = RequiredMsg THEN response.status \in 400..499
        ELSE response.status = 200

\* C2 amended: an {"error": ...} response has status 400 for missing
\* commodity/state, 404 for "No records found" and 200 otherwise; an upstream
\* failure in structured mode is such a 200 response.
C2_ErrorStatuses ==
    /\ (Served /\ response.kind = "error") =>
          response.status = (CASE response.error = RequiredMsg  -> 400
                               [] response.error = NoRecordsMsg -> 404
                               [] OTHER -> 200)
    /\ (RanStructured /\ request.up.kind = "reqexc") =>
          response = [kind |-> "error", status |-> 200, error |-> ApiFailedMsg]
    /\ (Served /\ response.kind \in {"agent", "table"}) => response.status = 200

C2_Witness ==
    Served /\ response.kind = "error" /\ response.error = NoRecordsMsg
           /\ response.status = 404

\* C3: in structured mode an upstream success with zero records is answered
\* "No records found" with or without a market name, and a table response
\* never has an empty records array.  Stated for requests whose commodity
\* and state are plain words.
C3_EmptyUpstreamIsNoRecords ==
    /\ (UpstreamOk /\ PlainInputs /\ UpRecords = <<>>) =>
          (response.kind = "error" /\ response.error = NoRecordsMsg)
    /\ (Served /\ response.kind = "table") => response.data.records # <<>>

\* C4 as stated: a query that does not contain " in " gets the format error
\* and no upstream request.
C4_NoSeparatorNoRequest ==
    \A i \in DOMAIN toolLog :
        ~Contains(toolLog[i].query, SEP_IN) =>
            /\ ~toolLog[i].raised
            /\ toolLog[i].result = [error |-> FormatErrorMsg]
            /\ toolLog[i].issued = <<>>

\* C4 amended: a query whose lower-cased form does not contain " in " gets
\* the format error and no upstream request.
C4_NoLowercaseSeparatorNoRequest ==
    \A i \in DOMAIN toolLog :
        ~Contains(Lower(toolLog[i].query), SEP_IN) =>
            /\ ~toolLog[i].raised
            /\ toolLog[i].result = [error |-> FormatErrorMsg]
            /\ toolLog[i].issued = <<>>

C4_Witness ==
    Served /\ \E i \in DOMAIN toolLog :
        /\ ~Contains(Lower(toolLog[i].query), SEP_IN)
        /\ Contains(toolLog[i].query, <<"i","n">>)
        /\ toolLog[i].result = [error |-> FormatErrorMsg]

\* C5: for non-empty commodity and state strings the structured pipeline
\* builds one upstream request whose filters are their title-cased, trimmed
\* forms.  Stated for strings that are not all whitespace.
C5_FiltersAreTitledTrimmedInputs ==
    (ObjectBody /\ agentLog = <<>>
        /\ TruthyText(Field("commodity")) /\ Strip(Field("commodity")[1]) # <<>>
        /\ TruthyText(Field("state")) /\ Strip(Field("state")[1]) # <<>>) =>
        /\ Len(toolLog) = 1
        /\ toolLog[1].issued =
              << [state     |-> Title(Strip(Field("state")[1])),
                  commodity |-> Title(Strip(Field("commodity")[1])),
                  limit     |-> Limit] >>

\* C6: every upstream request has non-empty, trimmed commodity and state
\* filter values.
C6_FiltersNonEmpty ==
    \A i \in DOMAIN toolLog : \A j \in DOMAIN toolLog[i].issued :
        LET p == toolLog[i].issued[j]
        IN  /\ p.commodity # <<>> /\ p.state # <<>>
            /\ Strip(p.commodity) = p.commodity /\ Strip(p.state) = p.state

\* C7: a table response reports the commodity and state strings exactly as
\* the caller supplied them.  Stated for plain words.
C7_CropAndStateAreOriginal ==
    (RanStructured /\ PlainInputs /\ response.kind = "table") =>
        /\ response.data.crop = Field("commodity")[1]
        /\ response.data.state = Field("state")[1]

\* what the agent run recorded in the request amounts to
AgentFailed ==
    request.agent.outcome = "raise" \/ \E i \in DOMAIN toolLog : toolLog[i].raised

\* the structured pipeline ran for the request: its validation, and past it
\* one tool call on the request's own commodity and state
StructuredRan ==
    /\ agentLog = <<>>
    /\ IF MissingFields(Field("commodity"), Field("state"))
       THEN toolLog = <<>> /\ response = [kind |-> "error", status |-> 400, error |-> RequiredMsg]
       ELSE /\ Len(toolLog) = 1
            /\ toolLog[1].query = PRICE_OF \o Field("commodity")[1] \o SEP_IN \o Field("state")[1]
            /\ response.kind \in {"table", "error"}

\* the request went to the agent and nowhere else
DelegatedOnly(answered) ==
    /\ agentLog = <<Field("question")[1]>>
    /\ \A i \in DOMAIN toolLog : request.agent.tool = <<toolLog[i].query>>
    /\ response # [kind |-> "error", status |-> 400, error |-> RequiredMsg]
    /\ answered => response = [kind |-> "agent", status |-> 200,
                               response |-> request.agent.result]

\* C8 as stated: agent mode is on exactly when the LLM credential was set;
\* then a request with a question is answered by the agent, its result passed
\* through, and every other request runs the structured pipeline.  Read in
\* the claim's favour: the question is non-empty, the body a JSON object, and
\* the agent returns.
C8_CredentialDecidesRouting ==
    (ObjectBody /\ ~AgentFailed) =>
        IF env.GOOGLE_API_KEY /\ TruthyName(Field("question"))
        THEN DelegatedOnly(TRUE)
        ELSE StructuredRan

\* C8 amended: agent mode is on exactly when the LLM credential was set and
\* the agent was built at startup, and never changes afterwards; a JSON-object
\* request with a non-empty question is then handed to the agent, whose result
\* is passed through unmodified when it returns one (an exception of the agent
\* gives the "Unexpected error" response), without the structured pipeline or
\* its validation; every other JSON-object request runs the structured
\* pipeline.
C8_RoutingNow ==
    /\ pc \in {"ready", "responded"} =>
          /\ USE_AGENT = env.GOOGLE_API_KEY
          /\ agent_executor = (env.GOOGLE_API_KEY /\ startupLog = <<"Gemini Agent Enabled">>)
    /\ pc \in {"boot", "failed"} => ~agent_executor
    /\ ObjectBody =>
          IF agent_executor /\ TruthyName(Field("question"))
          THEN /\ DelegatedOnly(~AgentFailed)
               /\ AgentFailed => response = [kind |-> "error", status |-> 200,
                                             error |-> UnexpectedMsg]
          ELSE StructuredRan

C8_AgentModeFixedAtStartup ==
    /\ []C8_RoutingNow
    /\ [][(pc \in {"ready", "responded"}) =>
             (agent_executor' = agent_executor /\ USE_AGENT' = USE_AGENT)]_vars

C8_Witness ==
    /\ ObjectBody /\ agent_executor
    /\ MissingFields(Field("commodity"), Field("state"))
    /\ response.kind = "agent" /\ response.response = request.agent.result

\* C9: disambiguation applied to its own output (same market name, any
\* non-empty record set) completes without error and changes nothing.
\* Stated for requests whose commodity and state are plain words.
C9_DisambiguationIdempotent ==
    (UpstreamOk /\ PlainInputs /\ TruthyName(Field("market")) /\ UpRecords # <<>>) =>
        LET once  == Disambiguate(request.score, UpRecords)
            twice == Disambiguate(request.score, once.records)
        IN  ~once.raised /\ ~twice.raised /\ twice.records = once.records

\* the upstream field each formatted key is read from
SourceField(k) ==
    CASE k = "Market" -> "market" [] k = "Min Price" -> "min_price"
      [] k = "Max Price" -> "max_price" [] k = "Modal Price" -> "modal_price"
      [] k = "Date" -> "arrival_date"

\* the records that reach formatting
Survivors ==
    IF TruthyName(Field("market")) THEN Disambiguate(request.score, UpRecords).records
    ELSE UpRecords

====
